---------------------------- MODULE Spec2Model ----------------------------
(***************************************************************************)
(* Recursive light-client proof pipeline of timewave-computer/lightwave:   *)
(* the Helios and Tendermint recursion circuits, the wrapper circuit, the  *)
(* trust-anchor store and the prover loop that chains them.                *)
(*                                                                         *)
(* Two specifications share the circuit operators:                         *)
(*   Spec         the service: run_prover_loop driving honest provers on   *)
(*                the outputs of a black-box base prover;                  *)
(*   SpecCircuit  the circuits alone, fed by an arbitrary prover that      *)
(*                chooses every circuit input.                             *)
(***************************************************************************)
EXTENDS Integers, Sequences, FiniteSets, TLC

VARIABLES
    mode,                 \* the mode main reads from CLIENT_BACKEND, fixed for the process lifetime
    elf_vk,               \* recursive_vk.bytes32() that setup() derives from the recursion ELF
    service_state,        \* the in-memory ServiceState of run_prover_loop
    db,                   \* the service_state table: None or the row id = 1
    pc,                   \* position of run_prover_loop inside its round
    recursive_prover,     \* the RecursiveProver the adapter returned this round
    recursive_proof,      \* this round's recursive proof
    failed_step,          \* the step whose failure sent the loop to sleep
    round_anchor,         \* history: (service_state, db) when the round started
    persisted_rounds,     \* history: number of rounds whose save_state returned Ok
    gpu_log,              \* history: worker teardowns and proof generations, in order
    tip,                  \* SpecCircuit: the proof the arbitrary prover holds
    call,                 \* SpecCircuit: the last circuit execution that committed
    conn,                 \* SpecStore: whether a StateManager has been opened
    state_table,          \* SpecStore: the rows of the service_state table
    store_hist,           \* SpecStore history: successful saves and the last anchor saved
    last_call,            \* SpecStore: the last store or API call and what it returned
    client_backend,       \* the CLIENT_BACKEND environment variable: None when not set
    workers,              \* the proof-generation tasks spawned and not yet joined
    server,               \* the API server task of main
    process,              \* the outcome of main
    pre                   \* SpecPreprocessor: the last run of the Helios preprocessor

vars == <<mode, elf_vk, service_state, db, pc, recursive_prover, recursive_proof,
          failed_step, round_anchor, persisted_rounds, gpu_log, tip, call,
          conn, state_table, store_hist, last_call,
          client_backend, workers, server, process, pre>>

service_vars == <<service_state, db, pc, recursive_prover, recursive_proof,
                  failed_step, round_anchor, persisted_rounds, elf_vk>>

circuit_vars == <<tip, call>>

store_vars == <<conn, state_table, store_hist, last_call>>

main_vars == <<server, process>>

process_vars == <<client_backend, workers, server, process>>

---------------------------------------------------------------------------
(* Bounds of the model *)

\* slots / heights range over TRUSTED + SlotStride * i, i in -1 .. MaxSlotSteps
MaxSlotSteps == 2

\* the prover loop is followed for this many persisted rounds
MaxRounds == 2

\* successful saves in a run of the store
MaxSaves == 2

---------------------------------------------------------------------------
(* Compiled-in constants *)

TRUSTED_HEAD == 11715392

TRUSTED_HEIGHT == 31134400

SYNC_COMMITTEE_PERIOD == 8192

\* 32-byte values are abstract names; the zero root of initialize_state is "ZERO"
TRUSTED_SYNC_COMMITTEE_HASH == "COMMITTEE_T"

TRUSTED_ROOT == "ROOT_T"

HELIOS_VK == "HELIOS_VK"

TENDERMINT_VK == "TENDERMINT_VK"

RECURSIVE_VK == "RECURSIVE_VK"

WRAPPER_VK == "WRAPPER_VK"

ZERO_ROOT == "ZERO"

\* half the distance from TRUSTED_HEAD to the next sync-committee period
\* boundary (11722752), so that steps -1, 0..1, 2.. fall in three periods
SlotStride == 32 * 115

Slots == { TRUSTED_HEAD + SlotStride * i : i \in -1..MaxSlotSteps }

TmHeights == { TRUSTED_HEIGHT + 100 * i : i \in -1..MaxSlotSteps }

CommitteeHashes == { TRUSTED_SYNC_COMMITTEE_HASH, "COMMITTEE_A" }

StateRoots == { "ROOT_A", "ROOT_B" }

HeaderHashes == { TRUSTED_ROOT, "ROOT_A" }

\* verifying keys a prover can name: the canonical recursion key and the key
\* of some other circuit
VKs == { RECURSIVE_VK, "OTHER_VK" }

None == [tag |-> "None"]

Some(x) == [tag |-> "Some", v |-> x]

\* Option::unwrap_or, and env::var(..).unwrap_or_else(|_| default)
unwrap_or(option, default) == IF option.tag = "Some" THEN option.v ELSE default

\* what CLIENT_BACKEND can hold: not set, either mode, any other string
ClientBackends == { None, Some("HELIOS"), Some("TENDERMINT"), Some("OTHER") }

\* mutant: a value that names no mode falls back to the default
main_mode_fallback(env) ==
    IF env \in {Some("HELIOS"), Some("TENDERMINT")} THEN env.v ELSE "TENDERMINT"

\* main: let mode = env::var("CLIENT_BACKEND").unwrap_or_else(|_| "TENDERMINT")
main_mode(env) == unwrap_or(env, "TENDERMINT")

\* the static MODE of the prover loop, read from the same variable
MODE == unwrap_or(client_backend, "HELIOS")

---------------------------------------------------------------------------
(* Encodings *)

\* borsh::to_vec of the Helios RecursionCircuitOutputs: fields in declaration order
BorshHeliosOutputs(o) ==
    <<o.active_committee, o.previous_committee, o.root, o.height, o.vk>>

\* borsh::from_slice::<RecursionCircuitOutputs> (Helios): None when the bytes
\* are not an encoding of the struct
FromSliceHeliosOutputs(b) ==
    IF Len(b) = 5
    THEN Some([active_committee |-> b[1], previous_committee |-> b[2],
               root |-> b[3], height |-> b[4], vk |-> b[5]])
    ELSE None

\* borsh::to_vec of the Tendermint RecursionCircuitOutputs
BorshTendermintOutputs(o) == <<o.root, o.height, o.vk>>

FromSliceTendermintOutputs(b) ==
    IF Len(b) = 3
    THEN Some([root |-> b[1], height |-> b[2], vk |-> b[3]])
    ELSE None

\* borsh::to_vec of WrapperCircuitOutputs
BorshWrapperOutputs(o) == <<o.height, o.root>>

FromSliceWrapperOutputs(b) ==
    IF Len(b) = 2 THEN Some([height |-> b[1], root |-> b[2]]) ELSE None

\* the 32-byte block-number leaf: 8 little-endian bytes (lo) and 24 more (hi)
PaddedBlockNumbers == [lo : {1, 2}, hi : {0, 1}]

unpad_block_number(padded) == padded.lo

\* ElectraBlockBodyRoots::merkelize and merkleize_header are collision-free
\* hashes: the digest is the tagged preimage
merkelize(body_roots) ==
    <<"body", body_roots.payload_roots.state_root, body_roots.payload_roots.block_number>>

merkleize_header(header) == <<"header", header.slot, header.body_root>>

\* Groth16Verifier::verify as the oracle: a proof verifies under the key of the
\* circuit that produced it and for the public values that circuit committed
Groth16Verify(proof, public_values, vk) ==
    /\ proof.vk = vk
    /\ proof.public_values = public_values

\* what a failed assertion / expect / panic leaves: no committed output
Panic == [ok |-> FALSE]

Commit(bytes) == [ok |-> TRUE, public_values |-> bytes]

---------------------------------------------------------------------------
(* Helios recursion circuit *)

\* mutant: the bootstrap branch without its assertion
helios_bootstrap_check_skipped(helios_output) == TRUE

\* the bootstrap assertion on the base output's previous sync committee
helios_bootstrap_check(helios_output) ==
    helios_output.prevSyncCommitteeHash = TRUSTED_SYNC_COMMITTEE_HASH

\* the head assertion of get_helios_outputs
head_check(helios_output) == helios_output.prevHead < helios_output.newHead

\* mutant: the earlier circuit's assertion, which let the base proof start from
\* either committee of the previous proof whatever the periods
committee_check_either(helios_output, recursive_proof_outputs) ==
    \/ helios_output.prevSyncCommitteeHash = recursive_proof_outputs.active_committee
    \/ helios_output.prevSyncCommitteeHash = recursive_proof_outputs.previous_committee

\* the committee assertion of get_helios_outputs: across a period boundary the
\* base proof must start from the previous proof's active committee, inside a
\* period from its previous committee
committee_check(helios_output, recursive_proof_outputs) ==
    IF helios_output.prevHead \div SYNC_COMMITTEE_PERIOD
         < helios_output.newHead \div SYNC_COMMITTEE_PERIOD
    THEN helios_output.prevSyncCommitteeHash = recursive_proof_outputs.active_committee
    ELSE helios_output.prevSyncCommitteeHash = recursive_proof_outputs.previous_committee

\* mutant: the committed vk is the key of this circuit, not the input
\* recursive_vk
get_helios_outputs_own_vk(helios_output, recursive_proof_outputs, recursive_proof_inputs, state_root, height) ==
    IF /\ recursive_proof_outputs.tag = "Some"
       /\ ~ head_check(helios_output)
    THEN Panic
    ELSE IF /\ recursive_proof_outputs.tag = "Some"
            /\ ~ committee_check(helios_output, recursive_proof_outputs.v)
    THEN Panic
    ELSE [ok |-> TRUE,
          outputs |-> [active_committee   |-> helios_output.syncCommitteeHash,
                       previous_committee |-> helios_output.prevSyncCommitteeHash,
                       root               |-> state_root,
                       height             |-> unpad_block_number(height),
                       vk                 |-> RECURSIVE_VK]]

\* get_helios_outputs: the checks against the previous proof's outputs (when
\* there are any), then the outputs the circuit commits
get_helios_outputs(helios_output, recursive_proof_outputs, recursive_proof_inputs, state_root, height) ==
    IF /\ recursive_proof_outputs.tag = "Some"
       /\ ~ head_check(helios_output)
    THEN Panic
    ELSE IF /\ recursive_proof_outputs.tag = "Some"
            /\ ~ committee_check(helios_output, recursive_proof_outputs.v)
    THEN Panic
    ELSE [ok |-> TRUE,
          outputs |-> [active_committee   |-> helios_output.syncCommitteeHash,
                       previous_committee |-> helios_output.prevSyncCommitteeHash,
                       root               |-> state_root,
                       height             |-> unpad_block_number(height),
                       vk                 |-> recursive_proof_inputs.recursive_vk]]

\* sp1_zkvm::io::commit_slice(&borsh::to_vec(&outputs)) of the Helios circuit
helios_commit(result) ==
    IF result.ok THEN Commit(BorshHeliosOutputs(result.outputs)) ELSE Panic

\* the non-bootstrap branch of main: verify the previous recursive proof under
\* the input recursive_vk, decode its public values, continue from them
helios_recursive_branch(inputs, helios_output, state_root, height) ==
    IF \/ inputs.recursive_proof.tag = "None"
       \/ inputs.recursive_public_values.tag = "None"
    THEN Panic
    ELSE IF ~ Groth16Verify(inputs.recursive_proof.v,
                            inputs.recursive_public_values.v,
                            inputs.recursive_vk)
    THEN Panic
    ELSE IF FromSliceHeliosOutputs(inputs.recursive_public_values.v).tag = "None"
    THEN Panic
    ELSE helios_commit(get_helios_outputs(
             helios_output,
             FromSliceHeliosOutputs(inputs.recursive_public_values.v),
             inputs, state_root, height))

\* mutant: only the body root is bound to the header; the header is not
\* compared with the base proof's newHeader
header_binding_check_body_only(inputs, helios_output) ==
    inputs.electra_header.body_root = merkelize(inputs.electra_body_roots)

\* the two assert_eq! of main that bind the payload to the base proof's header
header_binding_check(inputs, helios_output) ==
    /\ inputs.electra_header.body_root = merkelize(inputs.electra_body_roots)
    /\ merkleize_header(inputs.electra_header) = helios_output.newHeader

\* main of the Helios recursion circuit
helios_recursion_main(inputs) ==
    LET state_root == inputs.electra_body_roots.payload_roots.state_root
        height == inputs.electra_body_roots.payload_roots.block_number
        helios_output == inputs.helios_public_values
    IN  IF ~ header_binding_check(inputs, helios_output) THEN Panic
        ELSE IF ~ Groth16Verify(inputs.helios_proof, inputs.helios_public_values,
                                HELIOS_VK)
        THEN Panic
        ELSE IF inputs.previous_head = TRUSTED_HEAD
        THEN IF ~ helios_bootstrap_check(helios_output)
             THEN Panic
             ELSE helios_commit(get_helios_outputs(helios_output, None, inputs,
                                                   state_root, height))
        ELSE helios_recursive_branch(inputs, helios_output, state_root, height)

---------------------------------------------------------------------------
(* Tendermint recursion circuit *)

\* the bootstrap assertion on the base output's trusted header
tendermint_bootstrap_check(tendermintx_output) ==
    tendermintx_output.trusted_header_hash = TRUSTED_ROOT

\* mutant: the non-bootstrap branch without the height assertion
tendermint_recursive_branch_any_height(inputs, tendermintx_output) ==
    IF inputs.recursive_public_values.tag = "None" THEN FALSE
    ELSE IF FromSliceTendermintOutputs(inputs.recursive_public_values.v).tag = "None"
    THEN FALSE
    ELSE IF inputs.recursive_proof.tag = "None" THEN FALSE
    ELSE Groth16Verify(inputs.recursive_proof.v, inputs.recursive_public_values.v,
                       inputs.recursive_vk)

\* mutant: the non-bootstrap branch also asserts that the base proof starts
\* from the header the previous proof ended on
tendermint_recursive_branch_linked(inputs, tendermintx_output) ==
    IF inputs.recursive_public_values.tag = "None" THEN FALSE
    ELSE IF FromSliceTendermintOutputs(inputs.recursive_public_values.v).tag = "None"
    THEN FALSE
    ELSE IF ~ (tendermintx_output.target_height
                 > FromSliceTendermintOutputs(inputs.recursive_public_values.v).v.height)
    THEN FALSE
    ELSE IF tendermintx_output.trusted_header_hash
              # FromSliceTendermintOutputs(inputs.recursive_public_values.v).v.root
    THEN FALSE
    ELSE IF inputs.recursive_proof.tag = "None" THEN FALSE
    ELSE Groth16Verify(inputs.recursive_proof.v, inputs.recursive_public_values.v,
                       inputs.recursive_vk)

\* the non-bootstrap branch of main: decode the previous outputs, require a
\* higher target, verify the previous proof under the input recursive_vk
tendermint_recursive_branch(inputs, tendermintx_output) ==
    IF inputs.recursive_public_values.tag = "None" THEN FALSE
    ELSE IF FromSliceTendermintOutputs(inputs.recursive_public_values.v).tag = "None"
    THEN FALSE
    ELSE IF ~ (tendermintx_output.target_height
                 > FromSliceTendermintOutputs(inputs.recursive_public_values.v).v.height)
    THEN FALSE
    ELSE IF inputs.recursive_proof.tag = "None" THEN FALSE
    ELSE Groth16Verify(inputs.recursive_proof.v, inputs.recursive_public_values.v,
                       inputs.recursive_vk)

\* main of the Tendermint recursion circuit
tendermint_recursion_main(inputs) ==
    LET tendermintx_output == inputs.tendermint_public_values
    IN  IF ~ Groth16Verify(inputs.tendermint_proof, inputs.tendermint_public_values,
                           TENDERMINT_VK)
        THEN Panic
        ELSE IF ~ (IF inputs.trusted_height = TRUSTED_HEIGHT
                   THEN tendermint_bootstrap_check(tendermintx_output)
                   ELSE tendermint_recursive_branch(inputs, tendermintx_output))
        THEN Panic
        ELSE Commit(BorshTendermintOutputs(
                 [root   |-> tendermintx_output.target_header_hash,
                  height |-> tendermintx_output.target_height,
                  vk     |-> inputs.recursive_vk]))

---------------------------------------------------------------------------
(* Wrapper circuit *)

\* borsh::from_slice of the recursive public values, by the recursion-types
\* crate the wrapper is built against
DecodeRecursionOutputs(m, bytes) ==
    IF m = "HELIOS" THEN FromSliceHeliosOutputs(bytes)
    ELSE FromSliceTendermintOutputs(bytes)

\* mutant: the wrapper without its assertion on the committed vk
wrapper_vk_check_skipped(recursive_outputs) == TRUE

\* the assertion that ties the committed vk to the compiled-in RECURSIVE_VK
wrapper_vk_check(recursive_outputs) == recursive_outputs.vk = RECURSIVE_VK

\* mutant: the earlier wrapper, which verified the proof and re-committed the
\* recursive public values as they came
wrapper_main_recommit(m, inputs) ==
    IF ~ Groth16Verify(inputs.recursive_proof, inputs.recursive_public_values, RECURSIVE_VK)
    THEN Panic
    ELSE Commit(inputs.recursive_public_values)

\* mutant: a wrapper that decodes and commits without its two checks
wrapper_main_unchecked(m, inputs) ==
    LET decoded == DecodeRecursionOutputs(m, inputs.recursive_public_values)
    IN  IF decoded.tag = "None" THEN Panic
        ELSE Commit(BorshWrapperOutputs([height |-> decoded.v.height,
                                         root   |-> decoded.v.root]))

\* main of the wrapper circuit
wrapper_main(m, inputs) ==
    LET decoded == DecodeRecursionOutputs(m, inputs.recursive_public_values)
    IN  IF decoded.tag = "None" THEN Panic
        ELSE IF ~ wrapper_vk_check(decoded.v) THEN Panic
        ELSE IF ~ Groth16Verify(inputs.recursive_proof, inputs.recursive_public_values,
                                RECURSIVE_VK)
        THEN Panic
        ELSE Commit(BorshWrapperOutputs([height |-> decoded.v.height,
                                         root   |-> decoded.v.root]))

---------------------------------------------------------------------------
(* The circuits under an arbitrary prover (SpecCircuit).                   *)
(* The prover holds one proof (tip) and chooses every input of the next    *)
(* circuit execution: sp1_zkvm::io::read_vec() hands the circuit whatever  *)
(* bytes it is given.  An execution that panics commits nothing and leaves *)
(* no proof; one that commits becomes the new tip and is recorded in call  *)
(* until the next execution is set up.  With each recursion                *)
(* proof the model remembers, as history, the head it proved and whether   *)
(* every step behind it verified its predecessor under RECURSIVE_VK.       *)

CircuitBodies ==
    { [payload_roots |-> [state_root |-> "ROOT_A", block_number |-> [lo |-> 1, hi |-> 0]]],
      [payload_roots |-> [state_root |-> "ROOT_B", block_number |-> [lo |-> 2, hi |-> 1]]] }

OtherBody(body) == CHOOSE b \in CircuitBodies : b # body

\* one way at a time in which the prover departs from well-formed inputs
Tampers == { "none", "body_root", "header", "base_proof", "public_values", "no_proof" }

\* the same bytes with another vk field (the last field of either encoding)
TamperBytes(b) ==
    [b EXCEPT ![Len(b)] = IF @ = RECURSIVE_VK THEN "OTHER_VK" ELSE RECURSIVE_VK]

HeldProof(tamper) ==
    IF tamper = "no_proof" THEN None ELSE tip.proof

HeldPublicValues(tamper) ==
    IF tamper = "no_proof" \/ tip.proof.tag = "None" THEN None
    ELSE IF tamper = "public_values" THEN Some(TamperBytes(tip.proof.v.public_values))
    ELSE Some(tip.proof.v.public_values)

HeliosBaseOutputs ==
    [prevHead : Slots, newHead : Slots,
     prevSyncCommitteeHash : CommitteeHashes, syncCommitteeHash : CommitteeHashes]

\* RecursionCircuitInputs (Helios) as the prover assembles them
HeliosCircuitInputs(base, body, vk, previous_head, tamper) ==
    LET header == [slot |-> base.newHead,
                   body_root |-> IF tamper = "body_root"
                                 THEN merkelize(OtherBody(body))
                                 ELSE merkelize(body)]
        helios_output ==
            [prevHead |-> base.prevHead, newHead |-> base.newHead,
             prevSyncCommitteeHash |-> base.prevSyncCommitteeHash,
             syncCommitteeHash |-> base.syncCommitteeHash,
             newHeader |-> IF tamper = "header"
                           THEN merkleize_header([header EXCEPT
                                    !.body_root = merkelize(OtherBody(body))])
                           ELSE merkleize_header(header)]
    IN  [electra_body_roots |-> body,
         electra_header |-> header,
         helios_proof |-> [vk |-> IF tamper = "base_proof" THEN "OTHER_VK" ELSE HELIOS_VK,
                           public_values |-> helios_output],
         helios_public_values |-> helios_output,
         recursive_proof |-> HeldProof(tamper),
         recursive_public_values |-> HeldPublicValues(tamper),
         recursive_vk |-> vk,
         previous_head |-> previous_head]

\* the prover runs the Helios recursion circuit and it commits
HeliosProve ==
    /\ mode = "HELIOS"
    /\ call.circuit = "none"
    /\ \E base \in HeliosBaseOutputs, body \in CircuitBodies, vk \in VKs,
          previous_head \in Slots, tamper \in Tampers :
          LET inputs == HeliosCircuitInputs(base, body, vk, previous_head, tamper)
              result == helios_recursion_main(inputs)
          IN  /\ result.ok
              /\ tip' = [proof |-> Some([vk |-> RECURSIVE_VK,
                                         public_values |-> result.public_values]),
                         canonical |-> IF previous_head = TRUSTED_HEAD THEN TRUE
                                       ELSE vk = RECURSIVE_VK /\ tip.canonical,
                         head |-> base.newHead]
              /\ call' = [circuit |-> "helios", inputs |-> inputs,
                          prev |-> [canonical |-> tip.canonical, head |-> tip.head],
                          public_values |-> result.public_values]
    /\ UNCHANGED <<mode, service_vars, gpu_log, store_vars, process_vars, pre>>

TendermintBaseOutputs ==
    [trusted_header_hash : HeaderHashes, target_header_hash : HeaderHashes,
     target_height : TmHeights]

\* RecursionCircuitInputs (Tendermint) as the prover assembles them
TendermintCircuitInputs(base, vk, trusted_height, tamper) ==
    [tendermint_proof |-> [vk |-> IF tamper = "base_proof" THEN "OTHER_VK"
                                  ELSE TENDERMINT_VK,
                           public_values |-> base],
     tendermint_public_values |-> base,
     recursive_proof |-> HeldProof(tamper),
     recursive_public_values |-> HeldPublicValues(tamper),
     recursive_vk |-> vk,
     trusted_height |-> trusted_height]

\* the prover runs the Tendermint recursion circuit and it commits
TendermintProve ==
    /\ mode = "TENDERMINT"
    /\ call.circuit = "none"
    /\ \E base \in TendermintBaseOutputs, vk \in VKs, trusted_height \in TmHeights,
          tamper \in Tampers \ {"body_root", "header"} :
          LET inputs == TendermintCircuitInputs(base, vk, trusted_height, tamper)
              result == tendermint_recursion_main(inputs)
          IN  /\ result.ok
              /\ tip' = [proof |-> Some([vk |-> RECURSIVE_VK,
                                         public_values |-> result.public_values]),
                         canonical |-> IF trusted_height = TRUSTED_HEIGHT THEN TRUE
                                       ELSE vk = RECURSIVE_VK /\ tip.canonical,
                         head |-> base.target_height]
              /\ call' = [circuit |-> "tendermint", inputs |-> inputs,
                          prev |-> [canonical |-> tip.canonical, head |-> tip.head],
                          public_values |-> result.public_values]
    /\ UNCHANGED <<mode, service_vars, gpu_log, store_vars, process_vars, pre>>

\* public values some other circuit can commit: any well-formed encoding
OtherCircuitOutputs ==
    IF mode = "HELIOS"
    THEN { BorshHeliosOutputs(o) :
             o \in [active_committee : CommitteeHashes, previous_committee : CommitteeHashes,
                    root : StateRoots, height : {1, 2}, vk : VKs] }
    ELSE { BorshTendermintOutputs(o) :
             o \in [root : HeaderHashes, height : TmHeights, vk : VKs] }

\* the prover proves a circuit of its own, under that circuit's key
OtherProve ==
    /\ call.circuit = "none"
    /\ \E bytes \in OtherCircuitOutputs :
          tip' = [proof |-> Some([vk |-> "OTHER_VK", public_values |-> bytes]),
                  canonical |-> FALSE, head |-> 0]
    /\ call' = [circuit |-> "other"]
    /\ UNCHANGED <<mode, service_vars, gpu_log, store_vars, process_vars, pre>>

\* the prover runs the wrapper circuit on the proof it holds and it commits
WrapperProve ==
    /\ call.circuit = "none"
    /\ tip.proof.tag = "Some"
    /\ \E tamper \in {"none", "public_values"} :
          LET inputs == [recursive_proof |-> tip.proof.v,
                         recursive_public_values |-> HeldPublicValues(tamper).v]
              result == wrapper_main(mode, inputs)
          IN  /\ result.ok
              /\ call' = [circuit |-> "wrapper", inputs |-> inputs,
                          prev |-> [canonical |-> tip.canonical, head |-> tip.head],
                          public_values |-> result.public_values]
    /\ UNCHANGED <<tip, mode, service_vars, gpu_log, store_vars, process_vars, pre>>

CircuitInit ==
    /\ tip = [proof |-> None, canonical |-> TRUE, head |-> 0]
    /\ call = [circuit |-> "none"]

\* the record of the last execution is dropped before the next one is run
\* (call is history: what it held has been observed)
NextExecution ==
    /\ call.circuit # "none"
    /\ call' = [circuit |-> "none"]
    /\ UNCHANGED <<tip, mode, service_vars, gpu_log, store_vars, process_vars, pre>>

CircuitNext ==
    \/ HeliosProve
    \/ TendermintProve
    \/ OtherProve
    \/ WrapperProve
    \/ NextExecution

---------------------------------------------------------------------------
(* Trust-anchor store *)

\* serde_json::to_vec / from_slice of an SP1ProofWithPublicValues
to_json(proof) == <<"json", proof.vk, proof.public_values>>

from_json(blob) == [vk |-> blob[2], public_values |-> blob[3]]

\* save_state: INSERT OR REPLACE of the single row id = 1
save_state(state) ==
    Some([most_recent_recursive_proof |->
              IF state.most_recent_recursive_proof.tag = "Some"
              THEN Some(to_json(state.most_recent_recursive_proof.v)) ELSE None,
          most_recent_wrapper_proof |->
              IF state.most_recent_wrapper_proof.tag = "Some"
              THEN Some(to_json(state.most_recent_wrapper_proof.v)) ELSE None,
          trusted_slot   |-> state.trusted_slot,
          trusted_height |-> state.trusted_height,
          trusted_root   |-> state.trusted_root,
          update_counter |-> state.update_counter])

\* mutant: the SELECT reads trusted_height into trusted_slot and back
load_state_columns_swapped(row) ==
    IF row.tag = "None" THEN None
    ELSE Some([most_recent_recursive_proof |->
                   IF row.v.most_recent_recursive_proof.tag = "Some"
                   THEN Some(from_json(row.v.most_recent_recursive_proof.v)) ELSE None,
               most_recent_wrapper_proof |->
                   IF row.v.most_recent_wrapper_proof.tag = "Some"
                   THEN Some(from_json(row.v.most_recent_wrapper_proof.v)) ELSE None,
               trusted_slot   |-> row.v.trusted_height,
               trusted_height |-> row.v.trusted_slot,
               trusted_root   |-> row.v.trusted_root,
               update_counter |-> row.v.update_counter])

\* load_state: the row decoded, None when the table is empty
load_state(table) ==
    IF table.tag = "None" THEN None
    ELSE Some([most_recent_recursive_proof |->
                   IF table.v.most_recent_recursive_proof.tag = "Some"
                   THEN Some(from_json(table.v.most_recent_recursive_proof.v)) ELSE None,
               most_recent_wrapper_proof |->
                   IF table.v.most_recent_wrapper_proof.tag = "Some"
                   THEN Some(from_json(table.v.most_recent_wrapper_proof.v)) ELSE None,
               trusted_slot   |-> table.v.trusted_slot,
               trusted_height |-> table.v.trusted_height,
               trusted_root   |-> table.v.trusted_root,
               update_counter |-> table.v.update_counter])

\* the ServiceState that initialize_state builds and saves
initialize_state(initial_slot, initial_height) ==
    [most_recent_recursive_proof |-> None,
     most_recent_wrapper_proof   |-> None,
     trusted_slot   |-> initial_slot,
     trusted_height |-> initial_height,
     trusted_root   |-> ZERO_ROOT,
     update_counter |-> 0]

\* the row the INSERT of save_state writes: VALUES (1, ?1, ..., ?6)
StateRow(state) ==
    [id |-> 1,
     most_recent_recursive_proof |-> save_state(state).v.most_recent_recursive_proof,
     most_recent_wrapper_proof   |-> save_state(state).v.most_recent_wrapper_proof,
     trusted_slot   |-> state.trusted_slot,
     trusted_height |-> state.trusted_height,
     trusted_root   |-> state.trusted_root,
     update_counter |-> state.update_counter]

\* mutant: INSERT OR IGNORE, the row already there wins
insert_or_ignore(rows, row) ==
    IF \E r \in rows : r.id = row.id THEN rows ELSE rows \cup {row}

\* INSERT OR REPLACE on the primary key id
insert_or_replace(rows, row) ==
    { r \in rows : r.id # row.id } \cup {row}

\* SELECT ... WHERE id = 1 with query_row(...).optional()
select_row(rows) ==
    IF \E r \in rows : r.id = 1
    THEN Some(CHOOSE r \in rows : r.id = 1)
    ELSE None

\* hex::encode
hex_encode(bytes) == <<"hex", bytes>>

\* mutant: a stored anchor without wrapper proof answered 200 with no body
get_proof_ok_without_proof(from_env_ok, load_ok, loaded) ==
    IF ~ from_env_ok THEN [status |-> 500, body |-> ""]
    ELSE IF ~ load_ok THEN [status |-> 500, body |-> ""]
    ELSE IF loaded.tag = "None" THEN [status |-> 404, body |-> ""]
    ELSE IF loaded.v.most_recent_wrapper_proof.tag = "Some"
    THEN [status |-> 200,
          body |-> hex_encode(to_json(loaded.v.most_recent_wrapper_proof.v))]
    ELSE [status |-> 200, body |-> ""]

\* mutant: a failed load is answered like a missing proof
get_proof_error_as_not_found(from_env_ok, load_ok, loaded) ==
    IF ~ from_env_ok THEN [status |-> 500, body |-> ""]
    ELSE IF ~ load_ok THEN [status |-> 404, body |-> ""]
    ELSE IF loaded.tag = "None" THEN [status |-> 404, body |-> ""]
    ELSE IF loaded.v.most_recent_wrapper_proof.tag = "Some"
    THEN [status |-> 200,
          body |-> hex_encode(to_json(loaded.v.most_recent_wrapper_proof.v))]
    ELSE [status |-> 404, body |-> ""]

\* get_proof, the handler of GET /
get_proof(from_env_ok, load_ok, loaded) ==
    IF ~ from_env_ok THEN [status |-> 500, body |-> ""]
    ELSE IF ~ load_ok THEN [status |-> 500, body |-> ""]
    ELSE IF loaded.tag = "None" THEN [status |-> 404, body |-> ""]
    ELSE IF loaded.v.most_recent_wrapper_proof.tag = "Some"
    THEN [status |-> 200,
          body |-> hex_encode(to_json(loaded.v.most_recent_wrapper_proof.v))]
    ELSE [status |-> 404, body |-> ""]

---------------------------------------------------------------------------
(* The store and the query surface under any sequence of calls (SpecStore) *)

\* proofs an anchor can hold
StoreRecursiveProofs ==
    { [vk |-> RECURSIVE_VK,
       public_values |-> BorshTendermintOutputs(
           [root |-> "ROOT_A", height |-> 1, vk |-> RECURSIVE_VK])] }

StoreWrapperProofs ==
    { [vk |-> WRAPPER_VK,
       public_values |-> BorshWrapperOutputs([height |-> h, root |-> "ROOT_A"])] :
      h \in {2} }

\* ServiceState values handed to save_state
StoreAnchors ==
    [most_recent_recursive_proof : {None} \cup { Some(q) : q \in StoreRecursiveProofs },
     most_recent_wrapper_proof   : {None} \cup { Some(q) : q \in StoreWrapperProofs },
     trusted_slot   : {1, 3},
     trusted_height : {2},
     trusted_root   : {ZERO_ROOT, "ROOT_A"},
     update_counter : {0, 1}]

\* StateManager::new / from_env: open the file, CREATE TABLE IF NOT EXISTS
StoreNew ==
    /\ conn' = "open"
    /\ last_call' = [op |-> "new"]
    /\ UNCHANGED <<state_table, store_hist, mode, service_vars, gpu_log, circuit_vars, process_vars, pre>>

\* save_state returns Ok: the row id = 1 is inserted or replaced
StoreSave ==
    /\ conn = "open"
    /\ store_hist.saves < MaxSaves
    /\ \E state \in StoreAnchors :
          /\ state_table' = insert_or_replace(state_table, StateRow(state))
          /\ store_hist' = [saves |-> store_hist.saves + 1, last_saved |-> Some(state),
                             overwritten |-> store_hist.last_saved]
          /\ last_call' = [op |-> "save_state", ok |-> TRUE, state |-> state]
    /\ UNCHANGED <<conn, mode, service_vars, gpu_log, circuit_vars, process_vars, pre>>

\* save_state returns Err (serialisation, parameter binding or the statement
\* fails): the statement changed nothing
StoreSaveErr ==
    /\ conn = "open"
    /\ last_call' = [op |-> "save_state", ok |-> FALSE]
    /\ UNCHANGED <<conn, state_table, store_hist, mode, service_vars, gpu_log, circuit_vars, process_vars, pre>>

\* initialize_state returns Ok: the fresh anchor is built and saved
StoreInitialize ==
    /\ conn = "open"
    /\ store_hist.saves < MaxSaves
    /\ \E initial \in { <<TRUSTED_HEAD, 0>>, <<TRUSTED_HEIGHT, TRUSTED_HEIGHT>> } :
          LET state == initialize_state(initial[1], initial[2])
          IN  /\ state_table' = insert_or_replace(state_table, StateRow(state))
              /\ store_hist' = [saves |-> store_hist.saves + 1, last_saved |-> Some(state),
                             overwritten |-> store_hist.last_saved]
              /\ last_call' = [op |-> "initialize_state", ok |-> TRUE, state |-> state]
    /\ UNCHANGED <<conn, mode, service_vars, gpu_log, circuit_vars, process_vars, pre>>

\* load_state returns Ok
StoreLoad ==
    /\ conn = "open"
    /\ last_call' = [op |-> "load_state", ok |-> TRUE,
                     state |-> load_state(select_row(state_table))]
    /\ UNCHANGED <<conn, state_table, store_hist, mode, service_vars, gpu_log, circuit_vars, process_vars, pre>>

\* GET /: from_env and load_state succeed or fail, get_proof answers
GetProof ==
    /\ \E from_env_ok \in BOOLEAN, load_ok \in BOOLEAN :
          last_call' = [op |-> "get_proof", from_env_ok |-> from_env_ok,
                        load_ok |-> load_ok,
                        response |-> get_proof(from_env_ok, load_ok,
                                               load_state(select_row(state_table)))]
    /\ UNCHANGED <<conn, state_table, store_hist, mode, service_vars, gpu_log, circuit_vars, process_vars, pre>>

StoreInit ==
    /\ conn = "closed"
    /\ state_table = {}
    /\ store_hist = [saves |-> 0, last_saved |-> None, overwritten |-> None]
    /\ last_call = [op |-> "none"]

StoreNext ==
    \/ StoreNew
    \/ StoreSave
    \/ StoreSaveErr
    \/ StoreInitialize
    \/ StoreLoad
    \/ GetProof

---------------------------------------------------------------------------
(* A store file of any content (SpecLoad): the row another run, another    *)
(* version or a damaged disk left behind, read by load_state               *)

\* bytes that serde_json::from_slice does not accept as a proof: the JSON of
\* the proof cut short
truncated_json(proof) == <<"truncated", proof.vk, proof.public_values>>

\* serde_json::from_slice(&bytes) is Ok
from_slice_ok(blob) == blob[1] = "json"

\* a BLOB column of the row is NULL or decodes
column_decodes(column) == column.tag = "None" \/ from_slice_ok(column.v)

\* mutant: a proof blob that does not decode is read as an absent proof
load_state_result_lenient(table) ==
    IF table.tag = "None" THEN [tag |-> "Ok", v |-> None]
    ELSE [tag |-> "Ok",
          v |-> Some([most_recent_recursive_proof |->
                          IF table.v.most_recent_recursive_proof.tag = "Some"
                             /\ from_slice_ok(table.v.most_recent_recursive_proof.v)
                          THEN Some(from_json(table.v.most_recent_recursive_proof.v))
                          ELSE None,
                      most_recent_wrapper_proof |->
                          IF table.v.most_recent_wrapper_proof.tag = "Some"
                             /\ from_slice_ok(table.v.most_recent_wrapper_proof.v)
                          THEN Some(from_json(table.v.most_recent_wrapper_proof.v))
                          ELSE None,
                      trusted_slot   |-> table.v.trusted_slot,
                      trusted_height |-> table.v.trusted_height,
                      trusted_root   |-> table.v.trusted_root,
                      update_counter |-> table.v.update_counter])]

\* the Result of load_state: the closure's `?` on a blob that does not decode
\* makes query_row return Err, which optional() passes on
load_state_result(table) ==
    IF table.tag = "None" THEN [tag |-> "Ok", v |-> None]
    ELSE IF ~ column_decodes(table.v.most_recent_recursive_proof) THEN [tag |-> "Err"]
    ELSE IF ~ column_decodes(table.v.most_recent_wrapper_proof) THEN [tag |-> "Err"]
    ELSE [tag |-> "Ok", v |-> load_state(table)]

\* a BLOB column as it can be found for a proof: NULL, the proof's JSON, or
\* bytes that are not its JSON
StoredColumns(proofs) ==
    {None} \cup { Some(to_json(q)) : q \in proofs }
           \cup { Some(truncated_json(q)) : q \in proofs }

\* the rows the file can hold when it is opened
StoredRows ==
    [id : {1},
     most_recent_recursive_proof : StoredColumns(StoreRecursiveProofs),
     most_recent_wrapper_proof   : StoredColumns(StoreWrapperProofs),
     trusted_slot   : {1, 3},
     trusted_height : {2},
     trusted_root   : {ZERO_ROOT, "ROOT_A"},
     update_counter : {0, 1}]

\* load_state called on the file
LoadStored ==
    /\ last_call' = [op |-> "load_state",
                     result |-> load_state_result(select_row(state_table))]
    /\ UNCHANGED <<conn, state_table, store_hist, mode, service_vars, gpu_log,
                   circuit_vars, process_vars, pre>>

\* GET / on the file: from_env opens it or fails, the SELECT runs or fails,
\* and load_state decodes what it read
GetProofStored ==
    /\ \E from_env_ok \in BOOLEAN, select_ok \in BOOLEAN :
          LET result == IF select_ok THEN load_state_result(select_row(state_table))
                        ELSE [tag |-> "Err"]
          IN  last_call' = [op |-> "get_proof", from_env_ok |-> from_env_ok,
                            select_ok |-> select_ok,
                            response |-> get_proof(from_env_ok, result.tag = "Ok",
                                                   IF result.tag = "Ok" THEN result.v
                                                   ELSE None)]
    /\ UNCHANGED <<conn, state_table, store_hist, mode, service_vars, gpu_log,
                   circuit_vars, process_vars, pre>>

---------------------------------------------------------------------------
(* Helios preprocessor (SpecPreprocessor): Preprocessor::run on any pair   *)
(* of slots.  Slots are u64; the model takes them from the values around   *)
(* the epoch and period boundaries, below 2^31.                            *)

\* trusted and latest slots of a run: around multiples of 32, of 8192 and of
\* 256 * 8192, and around the compiled-in trusted slot
PreSlots ==
    { 0, 31, 32, 33, 8191, 8192, 8223, 8224,
      2097152, 2097183, 2105344,
      TRUSTED_HEAD, TRUSTED_HEAD + 31, TRUSTED_HEAD + 32, TRUSTED_HEAD + 2097152,
      2147483647 }

\* a - b on u64: None where the subtraction underflows (a panic with overflow
\* checks, a wrapped value without)
u64_sub(a, b) == IF a >= b THEN Some(a - b) ELSE None

\* `x as u8`: the low eight bits
as_u8(x) == x % 256

\* mutant: the check lets a latest slot equal to the trusted slot through
waiting_for_finality_below_only(trusted_slot, latest_slot) ==
    latest_slot < trusted_slot \/ latest_slot \div 32 < trusted_slot \div 32

\* the condition under which run returns "Waiting for new slot to be finalized"
waiting_for_finality(trusted_slot, latest_slot) ==
    latest_slot <= trusted_slot \/ latest_slot \div 32 < trusted_slot \div 32

\* period_distance of run: the difference of the two periods, 0 replaced by 1
period_distance(trusted_slot, latest_slot) ==
    LET trusted_slot_period == trusted_slot \div 8192
        latest_finalized_slot == latest_slot - (latest_slot % 32)
        latest_finalized_slot_period == latest_finalized_slot \div 8192
        distance == u64_sub(latest_finalized_slot_period, trusted_slot_period)
    IN  IF distance.tag = "None" THEN None
        ELSE IF distance.v = 0 THEN Some(1)
        ELSE distance

\* Preprocessor::run up to get_updates(&client, period_distance as u8): the
\* error it returns, or the number of period updates it requests
Preprocessor_run(trusted_slot, rpc_ok, latest_slot) ==
    IF ~ rpc_ok THEN [tag |-> "Err", error |-> "rpc"]
    ELSE IF waiting_for_finality(trusted_slot, latest_slot)
    THEN [tag |-> "Err", error |-> "waiting for finality"]
    ELSE IF period_distance(trusted_slot, latest_slot).tag = "None"
    THEN [tag |-> "Underflow"]
    ELSE [tag |-> "Ok",
          update_count |-> as_u8(period_distance(trusted_slot, latest_slot).v)]

\* helios_prover on the result of preprocessor.run(): an Err is returned at
\* once, before the base proof task is set up
invokes_base_prover(result) == result.tag = "Ok"

\* helios_prover runs the preprocessor for a trusted slot; the checkpoint and
\* head RPCs answer (with the latest finalized slot) or fail
PreprocessorRun ==
    /\ \E trusted_slot \in PreSlots, latest_slot \in PreSlots, rpc_ok \in BOOLEAN :
          LET result == Preprocessor_run(trusted_slot, rpc_ok, latest_slot)
          IN  pre' = [trusted_slot |-> trusted_slot, latest_slot |-> latest_slot,
                      rpc_ok |-> rpc_ok, result |-> result,
                      base_prover_invoked |-> invokes_base_prover(result)]
    /\ UNCHANGED <<mode, service_vars, gpu_log, circuit_vars, store_vars, process_vars>>

PreprocessorInit == pre = [result |-> None]

PreprocessorNext == PreprocessorRun

---------------------------------------------------------------------------
(* Prover loop (Spec) *)

\* execution payloads the consensus RPC can return for the new head
ServiceBodies ==
    { [payload_roots |-> [state_root |-> "ROOT_A", block_number |-> [lo |-> 1, hi |-> 0]]],
      [payload_roots |-> [state_root |-> "ROOT_B", block_number |-> [lo |-> 2, hi |-> 0]]] }

\* a beacon header root of another fork than the block the RPC served
ForkHeaderRoot(slot) == merkleize_header([slot |-> slot, body_root |-> <<"body", "FORK", 0>>])

\* previous_proof.as_ref().map(|p| p.bytes()) and .map(|p| p.public_values.to_vec())
PreviousProofBytes(state) == state.most_recent_recursive_proof

PreviousPublicValues(state) ==
    IF state.most_recent_recursive_proof.tag = "Some"
    THEN Some(state.most_recent_recursive_proof.v.public_values)
    ELSE None

\* helios_prover, on success: the decoded base outputs and the recursion inputs
helios_prover(state, recursive_vk, base, body, same_fork) ==
    LET electra_header == [slot |-> base.newHead, body_root |-> merkelize(body)]
        helios_outputs ==
            [prevHead |-> base.prevHead, newHead |-> base.newHead,
             prevSyncCommitteeHash |-> base.prevSyncCommitteeHash,
             syncCommitteeHash |-> base.syncCommitteeHash,
             newHeader |-> IF same_fork THEN merkleize_header(electra_header)
                           ELSE ForkHeaderRoot(base.newHead)]
    IN  [tag |-> "Helios",
         outputs |-> helios_outputs,
         inputs |-> [electra_body_roots |-> body,
                     electra_header |-> electra_header,
                     helios_proof |-> [vk |-> HELIOS_VK, public_values |-> helios_outputs],
                     helios_public_values |-> helios_outputs,
                     recursive_proof |-> PreviousProofBytes(state),
                     recursive_public_values |-> PreviousPublicValues(state),
                     recursive_vk |-> recursive_vk,
                     previous_head |-> state.trusted_slot]]

\* tendermint_prover, on success
tendermint_prover(state, recursive_vk, base) ==
    [tag |-> "Tendermint",
     outputs |-> base,
     inputs |-> [tendermint_proof |-> [vk |-> TENDERMINT_VK, public_values |-> base],
                 tendermint_public_values |-> base,
                 recursive_proof |-> PreviousProofBytes(state),
                 recursive_public_values |-> PreviousPublicValues(state),
                 recursive_vk |-> recursive_vk,
                 trusted_height |-> state.trusted_height]]

\* the recursion ELF main loaded for its mode, executed on the inputs the
\* adapter of MODE wrote: borsh::from_slice(&inputs).unwrap() panics on the
\* inputs of the other circuit
RunRecursionCircuit(prover) ==
    IF mode = "HELIOS"
    THEN (IF prover.tag = "Helios" THEN helios_recursion_main(prover.inputs) ELSE Panic)
    ELSE (IF prover.tag = "Tendermint" THEN tendermint_recursion_main(prover.inputs)
          ELSE Panic)

\* the wrapper ELF main loaded for its mode, executed on the round's
\* recursive proof
RunWrapperCircuit(prover, proof) ==
    wrapper_main(mode,
                 [recursive_proof |-> proof, recursive_public_values |-> proof.public_values])

\* borsh::from_slice(&recursive_proof.public_values) in the update step
wrapped_outputs(prover, proof) ==
    IF prover.tag = "Helios" THEN FromSliceHeliosOutputs(proof.public_values).v
    ELSE FromSliceTendermintOutputs(proof.public_values).v

\* mutant: the update without update_counter += 1
update_service_state_counter_kept(state, prover, proof, final_wrapped_proof) ==
    [most_recent_recursive_proof |-> Some(proof),
     most_recent_wrapper_proof   |-> Some(final_wrapped_proof),
     trusted_slot   |-> IF prover.tag = "Helios" THEN prover.outputs.newHead
                        ELSE prover.outputs.target_height,
     trusted_height |-> wrapped_outputs(prover, proof).height,
     trusted_root   |-> wrapped_outputs(prover, proof).root,
     update_counter |-> state.update_counter]

\* mutant: the update without the assignment of most_recent_recursive_proof
update_service_state_proof_kept(state, prover, proof, final_wrapped_proof) ==
    [most_recent_recursive_proof |-> state.most_recent_recursive_proof,
     most_recent_wrapper_proof   |-> Some(final_wrapped_proof),
     trusted_slot   |-> IF prover.tag = "Helios" THEN prover.outputs.newHead
                        ELSE prover.outputs.target_height,
     trusted_height |-> wrapped_outputs(prover, proof).height,
     trusted_root   |-> wrapped_outputs(prover, proof).root,
     update_counter |-> state.update_counter + 1]

\* mutant: the update without the assignment of most_recent_wrapper_proof
update_service_state_wrapper_kept(state, prover, proof, final_wrapped_proof) ==
    [most_recent_recursive_proof |-> Some(proof),
     most_recent_wrapper_proof   |-> state.most_recent_wrapper_proof,
     trusted_slot   |-> IF prover.tag = "Helios" THEN prover.outputs.newHead
                        ELSE prover.outputs.target_height,
     trusted_height |-> wrapped_outputs(prover, proof).height,
     trusted_root   |-> wrapped_outputs(prover, proof).root,
     update_counter |-> state.update_counter + 1]

\* mutant: the update without the assignment of trusted_slot
update_service_state_slot_kept(state, prover, proof, final_wrapped_proof) ==
    [most_recent_recursive_proof |-> Some(proof),
     most_recent_wrapper_proof   |-> Some(final_wrapped_proof),
     trusted_slot   |-> state.trusted_slot,
     trusted_height |-> wrapped_outputs(prover, proof).height,
     trusted_root   |-> wrapped_outputs(prover, proof).root,
     update_counter |-> state.update_counter + 1]

\* "Update service state with new trusted information"
update_service_state(state, prover, proof, final_wrapped_proof) ==
    [most_recent_recursive_proof |-> Some(proof),
     most_recent_wrapper_proof   |-> Some(final_wrapped_proof),
     trusted_slot   |-> IF prover.tag = "Helios" THEN prover.outputs.newHead
                        ELSE prover.outputs.target_height,
     trusted_height |-> wrapped_outputs(prover, proof).height,
     trusted_root   |-> wrapped_outputs(prover, proof).root,
     update_counter |-> state.update_counter + 1]

\* worker events of the base step on success: cleanup_gpu_containers at the
\* head of the loop, again inside the adapter, then the base proof
base_proof_events == <<"cleanup", "cleanup", "prove_base">>

\* worker events of a base step that fails: before the adapter's own cleanup
\* (the Helios preprocessor) or in the base proof
base_failure_events ==
    IF MODE = "HELIOS" THEN { <<"cleanup">>, base_proof_events }
    ELSE { base_proof_events }

\* mutant: the recursive proof starts on the worker the base proof left
recursive_proof_events_no_cleanup == <<"prove_recursive">>

\* worker events of the recursive step: cleanup_gpu_containers, then the proof
recursive_proof_events == <<"cleanup", "prove_recursive">>

\* worker events of the wrapper step: cleanup_gpu_containers, then the proof
wrapper_proof_events == <<"cleanup", "prove_wrapper">>

\* the events appended to the log, which begins with the start of the process;
\* at the head of a round only the last event before it is kept
LogEvents(events) ==
    IF pc = "base"
    THEN <<gpu_log[Len(gpu_log)]>> \o events
    ELSE gpu_log \o events

\* mutant: the task is left running and its result is not waited for
handle_await_detached(worker) == workers

\* handle.await: the spawned task has run to completion (or panicked) and is
\* no longer running
handle_await(worker) == workers \ {worker}

\* tokio::spawn of a proof-generation task
spawn(worker) == workers \cup {worker}

\* the ServiceState main hands to the loop: the stored one, or the initial
\* anchor of the mode ("HELIOS" and every other string share an arm)
startup_state(loaded) ==
    IF loaded.tag = "Some" THEN loaded.v
    ELSE IF mode = "TENDERMINT"
    THEN initialize_state(TRUSTED_HEIGHT, TRUSTED_HEIGHT)
    ELSE initialize_state(TRUSTED_HEAD, 0)

\* main up to the spawn of run_prover_loop: load_state, initialize_state when
\* the store is empty, the API server task (which binds its port or fails
\* to), the ctrl-c task, and the ELFs of the mode, where any other mode panics
Startup ==
    /\ pc = "startup"
    /\ LET loaded == load_state(db)
           state == startup_state(loaded)
       IN  /\ service_state' = state
           /\ db' = IF loaded.tag = "Some" THEN db ELSE save_state(state)
           /\ round_anchor' = [mem |-> state, db |-> db']
    /\ server' \in {"serving", "failed"}
    /\ IF mode \in {"HELIOS", "TENDERMINT"}
       THEN pc' = "base" /\ process' = "running"
       ELSE pc' = "aborted" /\ process' = "panicked"
    /\ UNCHANGED <<mode, elf_vk, recursive_prover, recursive_proof, failed_step,
                   persisted_rounds, gpu_log, workers, circuit_vars, store_vars,
                   client_backend, pre>>

\* main returns an error before the loop is spawned: the store cannot be
\* loaded or initialised, or (the anchor loaded and the server spawned) an
\* ELF file is missing or unreadable
StartupFails ==
    /\ pc = "startup"
    /\ \/ /\ UNCHANGED <<service_state, db, round_anchor, server>>
       \/ /\ mode \in {"HELIOS", "TENDERMINT"}
          /\ LET loaded == load_state(db)
                 state == startup_state(loaded)
             IN  /\ service_state' = state
                 /\ db' = IF loaded.tag = "Some" THEN db ELSE save_state(state)
                 /\ round_anchor' = [mem |-> state, db |-> db']
          /\ server' \in {"serving", "failed"}
    /\ pc' = "aborted"
    /\ process' = "exit_err"
    /\ UNCHANGED <<mode, elf_vk, recursive_prover, recursive_proof, failed_step,
                   persisted_rounds, gpu_log, workers, circuit_vars, store_vars,
                   client_backend, pre>>

\* the adapter spawns the base proof task
SpawnBase ==
    /\ pc = "base"
    /\ "base" \notin workers
    /\ workers' = spawn("base")
    /\ UNCHANGED <<mode, elf_vk, service_state, db, pc, recursive_prover, recursive_proof,
                   failed_step, round_anchor, persisted_rounds, gpu_log, main_vars,
                   circuit_vars, store_vars, client_backend, pre>>

\* the adapter returns Ok(prover): whatever the black-box base prover proved
BaseProverOk ==
    /\ pc = "base"
    /\ "base" \in workers
    /\ service_state.update_counter < MaxRounds
    /\ \/ /\ MODE = "HELIOS"
          /\ \E base \in HeliosBaseOutputs, body \in ServiceBodies, same_fork \in BOOLEAN :
                recursive_prover' = helios_prover(service_state, elf_vk, base, body, same_fork)
       \/ /\ MODE = "TENDERMINT"
          /\ \E base \in TendermintBaseOutputs :
                recursive_prover' = tendermint_prover(service_state, elf_vk, base)
    /\ pc' = "recursive"
    /\ workers' = handle_await("base")
    /\ gpu_log' = LogEvents(base_proof_events)
    /\ UNCHANGED <<mode, elf_vk, service_state, db, recursive_proof, failed_step,
                   round_anchor, persisted_rounds, main_vars, circuit_vars, store_vars,
                   client_backend, pre>>

\* mutant: a failed step ends the loop instead of sleeping
RetryAfter_gives_up(step) ==
    /\ pc' = "terminated"
    /\ failed_step' = step
    /\ recursive_prover' = None
    /\ recursive_proof' = None
    /\ UNCHANGED <<mode, elf_vk, service_state, db, round_anchor, persisted_rounds,
                   main_vars, circuit_vars, store_vars, client_backend, pre>>

\* the sleep-and-continue arm shared by every transient failure
RetryAfter(step) ==
    /\ pc' = "sleep"
    /\ failed_step' = step
    /\ recursive_prover' = None
    /\ recursive_proof' = None
    /\ UNCHANGED <<mode, elf_vk, service_state, db, round_anchor, persisted_rounds,
                   main_vars, circuit_vars, store_vars, client_backend, pre>>

\* the adapter returns Err: RPC failure or finality not reached (before the
\* base proof task is spawned), base worker failure or panic (after it)
BaseProverErr ==
    /\ pc = "base"
    /\ \E events \in base_failure_events :
          /\ "base" \in workers <=> events = base_proof_events
          /\ gpu_log' = LogEvents(events)
    /\ workers' = handle_await("base")
    /\ RetryAfter("base")

\* the loop spawns the recursive proof task
SpawnRecursive ==
    /\ pc = "recursive"
    /\ "recursive" \notin workers
    /\ workers' = spawn("recursive")
    /\ UNCHANGED <<mode, elf_vk, service_state, db, pc, recursive_prover, recursive_proof,
                   failed_step, round_anchor, persisted_rounds, gpu_log, main_vars,
                   circuit_vars, store_vars, client_backend, pre>>

\* client.prove(recursive_pk, stdin) returns the proof of an execution that commits
RecursiveProofOk ==
    /\ pc = "recursive"
    /\ "recursive" \in workers
    /\ RunRecursionCircuit(recursive_prover).ok
    /\ recursive_proof' =
           Some([vk |-> elf_vk,
                 public_values |-> RunRecursionCircuit(recursive_prover).public_values])
    /\ pc' = "wrapper"
    /\ workers' = handle_await("recursive")
    /\ gpu_log' = LogEvents(recursive_proof_events)
    /\ UNCHANGED <<mode, elf_vk, service_state, db, recursive_prover, failed_step,
                   round_anchor, persisted_rounds, main_vars, circuit_vars, store_vars,
                   client_backend, pre>>

\* Ok(Err(e)): the execution panicked or the prover failed
RecursiveProofErr ==
    /\ pc = "recursive"
    /\ "recursive" \in workers
    /\ workers' = handle_await("recursive")
    /\ gpu_log' = LogEvents(recursive_proof_events)
    /\ RetryAfter("recursive")

\* Err(join_error): the worker task panicked
RecursiveProofPanic ==
    /\ pc = "recursive"
    /\ "recursive" \in workers
    /\ workers' = handle_await("recursive")
    /\ gpu_log' = LogEvents(recursive_proof_events)
    /\ RetryAfter("recursive_panic")

\* the loop spawns the wrapper proof task
SpawnWrapper ==
    /\ pc = "wrapper"
    /\ "wrapper" \notin workers
    /\ workers' = spawn("wrapper")
    /\ UNCHANGED <<mode, elf_vk, service_state, db, pc, recursive_prover, recursive_proof,
                   failed_step, round_anchor, persisted_rounds, gpu_log, main_vars,
                   circuit_vars, store_vars, client_backend, pre>>

\* the wrapper proof of this round, when the wrapper execution commits
WrapperProof ==
    [vk |-> WRAPPER_VK,
     public_values |-> RunWrapperCircuit(recursive_prover, recursive_proof.v).public_values]

\* the wrapper proof is generated, the state updated and save_state returns Ok
PersistRound ==
    /\ pc = "wrapper"
    /\ "wrapper" \in workers
    /\ RunWrapperCircuit(recursive_prover, recursive_proof.v).ok
    /\ service_state' = update_service_state(service_state, recursive_prover,
                                             recursive_proof.v, WrapperProof)
    /\ db' = save_state(service_state')
    /\ round_anchor' = [mem |-> service_state', db |-> db']
    /\ persisted_rounds' = persisted_rounds + 1
    /\ pc' = "base"
    /\ recursive_prover' = None
    /\ recursive_proof' = None
    /\ workers' = handle_await("wrapper")
    /\ gpu_log' = LogEvents(wrapper_proof_events)
    /\ UNCHANGED <<mode, elf_vk, failed_step, main_vars, circuit_vars, store_vars,
                   client_backend, pre>>

\* mutant: the result of save_state is dropped and the loop goes on
SaveFails_result_ignored ==
    /\ pc = "wrapper"
    /\ "wrapper" \in workers
    /\ RunWrapperCircuit(recursive_prover, recursive_proof.v).ok
    /\ service_state' = update_service_state(service_state, recursive_prover,
                                             recursive_proof.v, WrapperProof)
    /\ pc' = "base"
    /\ recursive_prover' = None
    /\ recursive_proof' = None
    /\ workers' = handle_await("wrapper")
    /\ gpu_log' = LogEvents(wrapper_proof_events)
    /\ UNCHANGED <<mode, elf_vk, db, failed_step, round_anchor, persisted_rounds,
                   main_vars, circuit_vars, store_vars, client_backend, pre>>

\* the wrapper proof is generated, the state updated and save_state returns Err:
\* run_prover_loop returns the error
SaveFails ==
    /\ pc = "wrapper"
    /\ "wrapper" \in workers
    /\ RunWrapperCircuit(recursive_prover, recursive_proof.v).ok
    /\ service_state' = update_service_state(service_state, recursive_prover,
                                             recursive_proof.v, WrapperProof)
    /\ pc' = "terminated"
    /\ workers' = handle_await("wrapper")
    /\ gpu_log' = LogEvents(wrapper_proof_events)
    /\ UNCHANGED <<mode, elf_vk, db, recursive_prover, recursive_proof, failed_step,
                   round_anchor, persisted_rounds, main_vars, circuit_vars, store_vars,
                   client_backend, pre>>

\* mutant: the recursive proof is stored in the service state as soon as it
\* exists, so a failed wrapper proof leaves it there
WrapperProofErr_proof_stored ==
    /\ pc = "wrapper"
    /\ "wrapper" \in workers
    /\ pc' = "sleep"
    /\ failed_step' = "wrapper"
    /\ service_state' = [service_state EXCEPT !.most_recent_recursive_proof = recursive_proof]
    /\ recursive_prover' = None
    /\ recursive_proof' = None
    /\ workers' = handle_await("wrapper")
    /\ gpu_log' = LogEvents(wrapper_proof_events)
    /\ UNCHANGED <<mode, elf_vk, db, round_anchor, persisted_rounds, main_vars,
                   circuit_vars, store_vars, client_backend, pre>>

\* Ok(Err(e)) of the wrapper proof
WrapperProofErr ==
    /\ pc = "wrapper"
    /\ "wrapper" \in workers
    /\ workers' = handle_await("wrapper")
    /\ gpu_log' = LogEvents(wrapper_proof_events)
    /\ RetryAfter("wrapper")

\* Err(join_error) of the wrapper proof
WrapperProofPanic ==
    /\ pc = "wrapper"
    /\ "wrapper" \in workers
    /\ workers' = handle_await("wrapper")
    /\ gpu_log' = LogEvents(wrapper_proof_events)
    /\ RetryAfter("wrapper_panic")

\* cleanup_gpu_containers()? cannot run docker, before the task of the step
\* is spawned: run_prover_loop returns the error
CleanupFails ==
    /\ pc \in {"base", "recursive", "wrapper"}
    /\ pc \notin workers
    /\ pc' = "terminated"
    /\ UNCHANGED <<mode, elf_vk, service_state, db, recursive_prover, recursive_proof,
                   failed_step, round_anchor, persisted_rounds, gpu_log, workers,
                   main_vars, circuit_vars, store_vars, client_backend, pre>>

\* the DEFAULT_TIMEOUT sleep ends and `continue` starts the next round
Continue ==
    /\ pc = "sleep"
    /\ pc' = "base"
    /\ failed_step' = "none"
    /\ UNCHANGED <<mode, elf_vk, service_state, db, recursive_prover, recursive_proof,
                   round_anchor, persisted_rounds, gpu_log, workers, main_vars,
                   circuit_vars, store_vars, client_backend, pre>>

\* ctrl-c: the signal task sends on the shutdown channel and the API server,
\* its only receiver, shuts down gracefully
Interrupt ==
    /\ process = "running"
    /\ server = "serving"
    /\ server' = "shutdown"
    /\ UNCHANGED <<mode, service_vars, gpu_log, workers, process, circuit_vars,
                   store_vars, client_backend, pre>>

\* what main returns once tokio::join! has both results: only a JoinError (a
\* task that panicked) is matched by `if let Err(e)`
main_result(server_result, service_result) ==
    IF server_result = "JoinError" THEN "exit_err"
    ELSE IF service_result = "JoinError" THEN "exit_err"
    ELSE "exit_ok"

\* tokio::join!(server_handle, service_handle) completes: the server task has
\* ended (bind error or graceful shutdown) and run_prover_loop has returned
\* its error
MainReturns ==
    /\ process = "running"
    /\ pc = "terminated"
    /\ server \in {"failed", "shutdown"}
    /\ process' = main_result(IF server = "failed" THEN "Ok(Err)" ELSE "Ok(Ok)", "Ok(Err)")
    /\ UNCHANGED <<mode, service_vars, gpu_log, workers, server, circuit_vars,
                   store_vars, client_backend, pre>>

ServiceInit ==
    /\ elf_vk \in VKs
    /\ db = None
    /\ service_state = None
    /\ pc = "startup"
    /\ recursive_prover = None
    /\ recursive_proof = None
    /\ failed_step = "none"
    /\ round_anchor = None
    /\ persisted_rounds = 0
    /\ gpu_log = <<"start">>
    /\ workers = {}
    /\ server = "not_started"
    /\ process = "running"

Init ==
    /\ client_backend \in ClientBackends
    /\ mode = main_mode(client_backend)
    /\ ServiceInit
    /\ CircuitInit
    /\ StoreInit
    /\ PreprocessorInit

Next ==
    \/ Startup
    \/ StartupFails
    \/ SpawnBase
    \/ BaseProverOk
    \/ BaseProverErr
    \/ SpawnRecursive
    \/ RecursiveProofOk
    \/ RecursiveProofErr
    \/ RecursiveProofPanic
    \/ SpawnWrapper
    \/ PersistRound
    \/ SaveFails
    \/ WrapperProofErr
    \/ WrapperProofPanic
    \/ CleanupFails
    \/ Continue
    \/ Interrupt
    \/ MainReturns

Spec == Init /\ [][Next]_vars

\* the service with the scheduling the runtime gives the loop task: a
\* tokio::time::sleep that was started ends
SpecLive == Spec /\ WF_vars(Continue)

\* a step of the loop task inside a round: a spawn, or an awaited task or
\* call that returns
RoundStep ==
    \/ SpawnBase
    \/ BaseProverOk
    \/ BaseProverErr
    \/ SpawnRecursive
    \/ RecursiveProofOk
    \/ RecursiveProofErr
    \/ RecursiveProofPanic
    \/ SpawnWrapper
    \/ PersistRound
    \/ SaveFails
    \/ WrapperProofErr
    \/ WrapperProofPanic
    \/ CleanupFails

\* the service under fair scheduling: the runtime keeps polling the loop
\* task, every sleep ends and every awaited task or call returns
SpecProgress == Spec /\ WF_vars(Continue) /\ WF_vars(RoundStep)

\* the circuits alone: the service never starts
InitCircuit ==
    /\ Init
    /\ client_backend \in {Some("HELIOS"), Some("TENDERMINT")}
    /\ elf_vk = RECURSIVE_VK

NextCircuit == CircuitNext

SpecCircuit == InitCircuit /\ [][NextCircuit]_vars

\* the store alone: neither the loop nor a circuit runs
InitStore ==
    /\ Init
    /\ client_backend = Some("HELIOS")
    /\ elf_vk = RECURSIVE_VK

NextStore == StoreNext

SpecStore == InitStore /\ [][NextStore]_vars

\* the preprocessor alone
InitPreprocessor ==
    /\ Init
    /\ client_backend = Some("HELIOS")
    /\ elf_vk = RECURSIVE_VK

NextPreprocessor == PreprocessorNext

SpecPreprocessor == InitPreprocessor /\ [][NextPreprocessor]_vars

\* mutant: from_env creates the table anew, dropping the one it finds
create_table_dropping(row) == None

\* the CREATE TABLE IF NOT EXISTS of from_env on a file that has the table:
\* the statement does nothing and the row stays
create_table_if_not_exists(row) == row

\* the API server task handles a GET / while the loop runs: from_env opens
\* the loop's database file with a connection of its own (or fails to),
\* load_state reads the row (or fails, the file being locked or unreadable)
ServeGetProof ==
    /\ server = "serving"
    /\ process = "running"
    /\ \E from_env_ok \in BOOLEAN, load_ok \in BOOLEAN :
          /\ db' = IF from_env_ok THEN create_table_if_not_exists(db) ELSE db
          /\ last_call' = [op |-> "get_proof", from_env_ok |-> from_env_ok,
                           load_ok |-> load_ok,
                           response |-> get_proof(from_env_ok, load_ok, load_state(db'))]
    /\ UNCHANGED <<conn, state_table, store_hist, mode, elf_vk, service_state, pc,
                   recursive_prover, recursive_proof, failed_step, round_anchor,
                   persisted_rounds, gpu_log, circuit_vars, process_vars, pre>>

\* the service with its API server answering requests
InitApi ==
    /\ Init
    /\ client_backend \in {Some("HELIOS"), Some("TENDERMINT")}
    /\ elf_vk = RECURSIVE_VK

NextApi ==
    \/ Next
    \/ ServeGetProof

SpecApi == InitApi /\ [][NextApi]_vars

\* main's "Load or initialize the service state" on the file it finds:
\* load_state()? returns the error from main, Ok(None) initialises the anchor
\* of the mode, Ok(Some(state)) is the state main goes on with
MainLoad ==
    /\ pc = "startup"
    /\ LET result == load_state_result(select_row(state_table))
       IN  /\ last_call' = [op |-> "main", result |-> result]
           /\ IF result.tag = "Err"
              THEN /\ pc' = "aborted"
                   /\ process' = "exit_err"
                   /\ UNCHANGED <<service_state, state_table>>
              ELSE /\ pc' = "base"
                   /\ process' = process
                   /\ service_state' = startup_state(result.v)
                   /\ state_table' =
                          IF result.v.tag = "Some" THEN state_table
                          ELSE insert_or_replace(state_table, StateRow(service_state'))
    /\ UNCHANGED <<conn, store_hist, mode, elf_vk, db, recursive_prover, recursive_proof,
                   failed_step, round_anchor, persisted_rounds, gpu_log, circuit_vars,
                   client_backend, workers, server, pre>>

\* the process starts on a file of any content
InitLoad ==
    /\ client_backend \in {Some("HELIOS"), Some("TENDERMINT")}
    /\ mode = main_mode(client_backend)
    /\ ServiceInit
    /\ elf_vk = RECURSIVE_VK
    /\ CircuitInit
    /\ PreprocessorInit
    /\ conn = "open"
    /\ state_table \in {{}} \cup { {row} : row \in StoredRows }
    /\ store_hist = [saves |-> 0, last_saved |-> None, overwritten |-> None]
    /\ last_call = [op |-> "none"]

NextLoad ==
    \/ MainLoad
    \/ LoadStored
    \/ GetProofStored

SpecLoad == InitLoad /\ [][NextLoad]_vars

---------------------------------------------------------------------------
(* Claims *)

PersistedAnchor == load_state(db).v

HasPersistedAnchor == pc # "startup" /\ db.tag = "Some"

RoundSteps == {"base", "recursive", "wrapper", "sleep"}

\* the decoded base output and previous outputs of the recorded Helios execution
CallHeliosOutput == call.inputs.helios_public_values

CallPreviousHelios == FromSliceHeliosOutputs(call.inputs.recursive_public_values.v).v

HeliosNonBootstrapCall ==
    call.circuit = "helios" /\ call.inputs.previous_head # TRUSTED_HEAD

HeliosBootstrapCall ==
    call.circuit = "helios" /\ call.inputs.previous_head = TRUSTED_HEAD

\* C1: whenever the wrapper circuit accepts a recursive proof, every
\* recursion step behind that proof, back to the bootstrap, verified its
\* predecessor under the canonical RECURSIVE_VK.
C1_WrapperImpliesCanonicalChain ==
    call.circuit = "wrapper" => call.prev.canonical

\* C2: when a round fails transiently (at the base, recursion or wrapper step,
\* by error or worker panic) the in-memory and the persisted anchor are what
\* they were when the round started, and the loop goes from the sleep to the
\* first step with that anchor.
C2_FailedRoundKeepsAnchor ==
    /\ [](pc = "sleep" => (service_state = round_anchor.mem /\ db = round_anchor.db))
    /\ [][(pc = "sleep" /\ pc' # "sleep")
            => (pc' = "base" /\ service_state' = service_state /\ db' = db)]_vars

C2_Witness ==
    /\ pc = "sleep"
    /\ failed_step = "wrapper"
    /\ service_state.update_counter >= 1

\* C3: after the N-th persisted round the persisted counter is N and, for
\* N >= 1, the root and height decoded from the persisted recursive proof's
\* public values are the persisted trusted_root and trusted_height.
C3_CounterAndProofMatchAnchor ==
    HasPersistedAnchor =>
        /\ PersistedAnchor.update_counter = persisted_rounds
        /\ persisted_rounds >= 1 =>
              /\ PersistedAnchor.most_recent_recursive_proof.tag = "Some"
              /\ LET decoded == DecodeRecursionOutputs(
                                    mode, PersistedAnchor.most_recent_recursive_proof.v.public_values)
                 IN  /\ decoded.tag = "Some"
                     /\ decoded.v.root = PersistedAnchor.trusted_root
                     /\ decoded.v.height = PersistedAnchor.trusted_height

C3_Witness ==
    /\ HasPersistedAnchor
    /\ persisted_rounds >= 2
    /\ PersistedAnchor.trusted_root = "ROOT_B"

\* C4: in every persisted anchor, counter == 0 exactly when the recursive
\* proof is absent.
C4_CounterZeroIffNoProof ==
    HasPersistedAnchor =>
        (PersistedAnchor.update_counter = 0
           <=> PersistedAnchor.most_recent_recursive_proof.tag = "None")

C4_Witness ==
    /\ HasPersistedAnchor
    /\ PersistedAnchor.update_counter >= 1
    /\ PersistedAnchor.most_recent_recursive_proof.tag = "Some"

\* C5: every persisted round moves trusted_slot strictly forward, in both
\* modes and in the bootstrap round, whatever the base prover returned.
C5_SlotStrictlyIncreases ==
    [][(HasPersistedAnchor /\ db' # db)
         => load_state(db').v.trusted_slot > PersistedAnchor.trusted_slot]_vars

\* C6: the Helios circuit accepts a non-bootstrap step only if the base
\* proof's newHead is greater than the head the previous recursive proof
\* proved.
C6_HeliosHeadAbovePreviousProof ==
    (/\ HeliosNonBootstrapCall
     /\ call.inputs.recursive_proof.v.vk = RECURSIVE_VK)
        => CallHeliosOutput.newHead > call.prev.head

\* C7: the wrapper proof of every persisted round verifies under the wrapper
\* key and its public outputs are the anchor's trusted_height and trusted_root.
C7_WrapperProofMatchesAnchor ==
    (HasPersistedAnchor /\ PersistedAnchor.update_counter >= 1) =>
        /\ PersistedAnchor.most_recent_wrapper_proof.tag = "Some"
        /\ LET wrapper_proof == PersistedAnchor.most_recent_wrapper_proof.v
           IN  /\ Groth16Verify(wrapper_proof, wrapper_proof.public_values, WRAPPER_VK)
               /\ FromSliceWrapperOutputs(wrapper_proof.public_values)
                    = Some([height |-> PersistedAnchor.trusted_height,
                            root   |-> PersistedAnchor.trusted_root])

C7_Witness ==
    /\ HasPersistedAnchor
    /\ PersistedAnchor.update_counter >= 2
    /\ PersistedAnchor.most_recent_wrapper_proof.tag = "Some"
    /\ PersistedAnchor.trusted_height = 2

\* C8: a non-bootstrap Helios execution commits only if the base proof's
\* prevSyncCommitteeHash is the previous proof's active_committee when
\* floor(prevHead/8192) < floor(newHead/8192), and its previous_committee
\* otherwise.
C8_CommitteeContinuity ==
    HeliosNonBootstrapCall =>
        IF CallHeliosOutput.prevHead \div 8192 < CallHeliosOutput.newHead \div 8192
        THEN CallHeliosOutput.prevSyncCommitteeHash = CallPreviousHelios.active_committee
        ELSE CallHeliosOutput.prevSyncCommitteeHash = CallPreviousHelios.previous_committee

C8_Witness ==
    /\ HeliosNonBootstrapCall
    /\ CallHeliosOutput.prevHead \div 8192 < CallHeliosOutput.newHead \div 8192
    /\ CallPreviousHelios.active_committee # CallPreviousHelios.previous_committee
    /\ call.inputs.recursive_proof.v.vk = RECURSIVE_VK

\* C9: a bootstrap execution commits only if the base output's prior anchor
\* is the compiled-in constant (Helios: prevSyncCommitteeHash and
\* TRUSTED_SYNC_COMMITTEE_HASH; Tendermint: trusted_header_hash and TRUSTED_ROOT).
C9_BootstrapAnchored ==
    /\ HeliosBootstrapCall
          => CallHeliosOutput.prevSyncCommitteeHash = TRUSTED_SYNC_COMMITTEE_HASH
    /\ (call.circuit = "tendermint" /\ call.inputs.trusted_height = TRUSTED_HEIGHT)
          => call.inputs.tendermint_public_values.trusted_header_hash = TRUSTED_ROOT

C9_Witness ==
    /\ HeliosBootstrapCall
    /\ CallHeliosOutput.syncCommitteeHash # TRUSTED_SYNC_COMMITTEE_HASH

\* C10: the Helios circuit rejects every input whose base output has
\* newHead <= prevHead, in the bootstrap branch as in the non-bootstrap branch.
C10_RejectsNonIncreasingHead ==
    call.circuit = "helios" => CallHeliosOutput.prevHead < CallHeliosOutput.newHead

\* the wrapper inputs a prover can assemble around the proof it holds
WrapperInputsFor(tamper) ==
    [recursive_proof |-> tip.proof.v,
     recursive_public_values |-> HeldPublicValues(tamper).v]

\* C11: the wrapper rejects recursive public values whose vk is not
\* RECURSIVE_VK; with the vk equal and the proof verifying under RECURSIVE_VK
\* it commits exactly WrapperOutputs {height, root} of the recursive outputs.
C11_WrapperVkEnforced ==
    tip.proof.tag = "Some" =>
        \A tamper \in {"none", "public_values"} :
            LET inputs == WrapperInputsFor(tamper)
                decoded == DecodeRecursionOutputs(mode, inputs.recursive_public_values)
                result == wrapper_main(mode, inputs)
            IN  /\ (decoded.tag = "Some" /\ decoded.v.vk # RECURSIVE_VK) => ~ result.ok
                /\ (/\ decoded.tag = "Some"
                    /\ decoded.v.vk = RECURSIVE_VK
                    /\ Groth16Verify(inputs.recursive_proof,
                                     inputs.recursive_public_values, RECURSIVE_VK))
                      => result = Commit(BorshWrapperOutputs(
                                      [height |-> decoded.v.height, root |-> decoded.v.root]))

C11_Witness ==
    /\ tip.proof.tag = "Some"
    /\ tip.proof.v.vk = RECURSIVE_VK
    /\ DecodeRecursionOutputs(mode, tip.proof.v.public_values).v.vk = "OTHER_VK"
    /\ ~ wrapper_main(mode, WrapperInputsFor("none")).ok

\* C12: a bootstrap execution of the Helios circuit commits only when the
\* input carries no recursive proof.
C12_BootstrapWithoutRecursiveProof ==
    HeliosBootstrapCall => call.inputs.recursive_proof.tag = "None"

\* C13: the Helios circuit commits only if the body roots hash to the header's
\* body_root and the header hashes to the base output's newHeader; the
\* committed root and height are those of that payload.
C13_HeaderBinding ==
    call.circuit = "helios" =>
        /\ merkelize(call.inputs.electra_body_roots) = call.inputs.electra_header.body_root
        /\ merkleize_header(call.inputs.electra_header) = CallHeliosOutput.newHeader
        /\ LET committed == FromSliceHeliosOutputs(call.public_values).v
               payload == call.inputs.electra_body_roots.payload_roots
           IN  /\ committed.root = payload.state_root
               /\ committed.height = unpad_block_number(payload.block_number)

C13_Witness ==
    /\ HeliosNonBootstrapCall
    /\ call.inputs.electra_body_roots.payload_roots.state_root = "ROOT_B"
    /\ FromSliceHeliosOutputs(call.public_values).v.root = "ROOT_B"

\* C14: a recursion circuit that accepts commits exactly the outputs built
\* from the base output, the payload and the input recursive_vk, in either
\* branch.
C14_CommittedOutputs ==
    /\ call.circuit = "helios" =>
          call.public_values = BorshHeliosOutputs(
              [active_committee   |-> CallHeliosOutput.syncCommitteeHash,
               previous_committee |-> CallHeliosOutput.prevSyncCommitteeHash,
               root   |-> call.inputs.electra_body_roots.payload_roots.state_root,
               height |-> unpad_block_number(
                              call.inputs.electra_body_roots.payload_roots.block_number),
               vk     |-> call.inputs.recursive_vk])
    /\ call.circuit = "tendermint" =>
          call.public_values = BorshTendermintOutputs(
              [root   |-> call.inputs.tendermint_public_values.target_header_hash,
               height |-> call.inputs.tendermint_public_values.target_height,
               vk     |-> call.inputs.recursive_vk])

C14_Witness ==
    /\ HeliosNonBootstrapCall
    /\ call.inputs.recursive_vk = "OTHER_VK"
    /\ call.inputs.electra_body_roots.payload_roots.block_number.hi = 1
    /\ CallHeliosOutput.syncCommitteeHash # CallHeliosOutput.prevSyncCommitteeHash

TendermintNonBootstrapCall ==
    call.circuit = "tendermint" /\ call.inputs.trusted_height # TRUSTED_HEIGHT

\* C15: the Tendermint circuit accepts a non-bootstrap input only if the
\* previous proof and public values are present, the proof verifies under the
\* input recursive_vk and the target height is above the previous outputs' height.
C15_TendermintNonBootstrap ==
    TendermintNonBootstrapCall =>
        /\ call.inputs.recursive_proof.tag = "Some"
        /\ call.inputs.recursive_public_values.tag = "Some"
        /\ Groth16Verify(call.inputs.recursive_proof.v,
                         call.inputs.recursive_public_values.v,
                         call.inputs.recursive_vk)
        /\ call.inputs.tendermint_public_values.target_height
             > FromSliceTendermintOutputs(call.inputs.recursive_public_values.v).v.height

C15_Witness ==
    /\ TendermintNonBootstrapCall
    /\ call.inputs.recursive_vk = "OTHER_VK"
    /\ call.inputs.tendermint_public_values.target_height = TRUSTED_HEIGHT + 100

C17_SingleRowLatestAnchor ==
    /\ Cardinality(state_table) <= 1
    /\ \A r \in state_table : r.id = 1
    /\ load_state(select_row(state_table)) = store_hist.last_saved

C17_Witness ==
    /\ store_hist.saves >= 2
    /\ store_hist.overwritten.tag = "Some"
    /\ store_hist.overwritten.v.most_recent_wrapper_proof.tag = "Some"
    /\ store_hist.last_saved.v.most_recent_wrapper_proof.tag = "None"
    /\ Cardinality(state_table) = 1

\* C18: GET / answers 500 exactly when opening the store or loading fails;
\* otherwise 200 with the hex of the stored wrapper proof's JSON exactly when an
\* anchor with a wrapper proof is stored, and 404 exactly when no anchor or no
\* wrapper proof is stored.
C18_GetProofStatus ==
    last_call.op = "get_proof" =>
        LET stored == load_state(select_row(state_table))
            has_proof == /\ stored.tag = "Some"
                         /\ stored.v.most_recent_wrapper_proof.tag = "Some"
            failed == ~ last_call.from_env_ok \/ ~ last_call.load_ok
            response == last_call.response
        IN  /\ response.status = 500 <=> failed
            /\ response.status = 200 <=> (~ failed /\ has_proof)
            /\ response.status = 404 <=> (~ failed /\ ~ has_proof)
            /\ response.status = 200 =>
                  response.body = hex_encode(to_json(stored.v.most_recent_wrapper_proof.v))

C18_Witness ==
    /\ last_call.op = "get_proof"
    /\ last_call.response.status = 200
    /\ last_call.response.body # ""
    /\ store_hist.saves >= 1

\* C19: every step of a round runs on an in-memory anchor equal to the
\* persisted one, and once save_state has failed the loop takes no further step.
C19_NoRoundFromUnsavedAnchor ==
    /\ [](pc \in RoundSteps => load_state(db) = Some(service_state))
    /\ [][pc = "terminated" => pc' = "terminated"]_vars

C19_Witness ==
    /\ pc = "terminated"
    /\ persisted_rounds >= 1
    /\ load_state(db) # Some(service_state)
    /\ service_state.update_counter = persisted_rounds + 1

IsProofGeneration(event) ==
    event \in {"prove_base", "prove_recursive", "prove_wrapper"}

TransientFailureStep == failed_step' # failed_step /\ failed_step' # "none"

C22_UnsetBackendIsTendermint ==
    (client_backend = None /\ recursive_prover.tag # "None") =>
        /\ mode = "TENDERMINT"
        /\ MODE = "TENDERMINT"
        /\ recursive_prover.tag = "Tendermint"

InvalidBackend ==
    client_backend.tag = "Some" /\ client_backend.v \notin {"HELIOS", "TENDERMINT"}

\* C23: with a CLIENT_BACKEND that names no mode, main can only end (by the
\* panic or an earlier error) and the loop never takes a step: no worker, no
\* proof, no round.
C23_InvalidBackendIsFatal ==
    InvalidBackend =>
        /\ pc \in {"startup", "aborted"}
        /\ pc = "startup" => ENABLED Startup
        /\ pc = "aborted" => process \in {"panicked", "exit_err"}
        /\ workers = {} /\ gpu_log = <<"start">> /\ persisted_rounds = 0

C23_Witness ==
    /\ InvalidBackend
    /\ process = "panicked"
    /\ db = save_state(initialize_state(TRUSTED_HEAD, 0))

\* the loop has returned the error of save_state: the update it could not
\* save is still in memory
SaveFailed == pc = "terminated" /\ load_state(db) # Some(service_state)

\* C24: once save_state has failed, main can return without a shutdown
\* signal, and the process never ends as a success.
C24_SaveFailureEndsProcessAsError ==
    SaveFailed =>
        /\ process # "exit_ok"
        /\ process = "running" => ENABLED MainReturns

\* C25: after the interrupt no further round is started: the round in flight
\* ends (persisted or failed) and the loop stays there.
C25_NoRoundAfterInterrupt ==
    [][(server = "shutdown" /\ pc \in {"wrapper", "sleep"}) => pc' # "base"]_vars

\* C26: at most one proof-generation task is running, it is the task of the
\* step the loop is at, and none runs between rounds (sleep) or after the loop.
C26_OneWorkerAtATime ==
    /\ Cardinality(workers) <= 1
    /\ workers \subseteq {pc}
    /\ pc \in {"startup", "aborted", "sleep", "terminated"} => workers = {}

C26_Witness ==
    /\ workers = {"wrapper"}
    /\ persisted_rounds >= 1
    /\ gpu_log[Len(gpu_log)] = "prove_recursive"

Max(a, b) == IF a >= b THEN a ELSE b

\* C28: for every pair of slots that passes the finality check the run
\* requests max(1, floor(latest_finalized_slot / 8192) - floor(trusted_slot / 8192))
\* period updates, without underflow and never fewer than 1.
C28_PeriodUpdatesRequested ==
    (pre.result.tag \in {"Ok", "Underflow"}) =>
        LET latest_finalized_slot == pre.latest_slot - (pre.latest_slot % 32)
            latest_period == latest_finalized_slot \div 8192
            trusted_period == pre.trusted_slot \div 8192
        IN  /\ pre.result.tag = "Ok"
            /\ latest_period >= trusted_period
            /\ pre.result.update_count = Max(1, latest_period - trusted_period)
            /\ pre.result.update_count >= 1

\* C29: in Tendermint mode every persisted anchor has trusted_slot =
\* trusted_height, and a round persists in both the target_height of the base
\* proof it proved.
C29_TendermintSlotIsHeight ==
    /\ []((mode = "TENDERMINT" /\ HasPersistedAnchor)
            => PersistedAnchor.trusted_slot = PersistedAnchor.trusted_height)
    /\ [][(mode = "TENDERMINT" /\ HasPersistedAnchor /\ db' # db)
            => /\ load_state(db').v.trusted_slot = recursive_prover.outputs.target_height
               /\ load_state(db').v.trusted_height = recursive_prover.outputs.target_height]_vars

C29_Witness ==
    /\ mode = "TENDERMINT"
    /\ HasPersistedAnchor
    /\ persisted_rounds >= 2
    /\ PersistedAnchor.trusted_slot = TRUSTED_HEIGHT + 200
    /\ PersistedAnchor.trusted_height = TRUSTED_HEIGHT + 200

\* C30: the recursive proof of a persisted anchor verifies under the key setup
\* derived from the recursion ELF, and the vk in its public outputs is that key
\* and the RECURSIVE_VK of the wrapper.
C30_PersistedProofUnderRoundKey ==
    (HasPersistedAnchor /\ PersistedAnchor.most_recent_recursive_proof.tag = "Some") =>
        LET proof == PersistedAnchor.most_recent_recursive_proof.v
            decoded == DecodeRecursionOutputs(mode, proof.public_values)
        IN  /\ Groth16Verify(proof, proof.public_values, elf_vk)
            /\ decoded.tag = "Some"
            /\ decoded.v.vk = elf_vk
            /\ decoded.v.vk = RECURSIVE_VK

C30_Witness ==
    /\ HasPersistedAnchor
    /\ mode = "HELIOS"
    /\ persisted_rounds >= 2
    /\ PersistedAnchor.most_recent_recursive_proof.tag = "Some"
    /\ FromSliceHeliosOutputs(
           PersistedAnchor.most_recent_recursive_proof.v.public_values).v.vk = elf_vk


\* a proof column of the stored row holds bytes that do not decode
StoredProofMalformed ==
    /\ select_row(state_table).tag = "Some"
    /\ \/ ~ column_decodes(select_row(state_table).v.most_recent_recursive_proof)
       \/ ~ column_decodes(select_row(state_table).v.most_recent_wrapper_proof)

\* C31: with a recursive or wrapper proof blob that does not decode,
\* load_state returns Err (no anchor at all); main returns that error with no
\* service state and no round; GET / answers 500.
C31_MalformedBlobIsLoadError ==
    StoredProofMalformed =>
        /\ last_call.op \in {"load_state", "main"} => last_call.result = [tag |-> "Err"]
        /\ pc # "startup" =>
               (pc = "aborted" /\ process = "exit_err" /\ service_state = None)
        /\ last_call.op = "get_proof" =>
               last_call.response = [status |-> 500, body |-> ""]

C31_Witness ==
    /\ StoredProofMalformed
    /\ column_decodes(select_row(state_table).v.most_recent_recursive_proof)
    /\ pc = "aborted"
    /\ last_call.op = "main"


\* the inputs of the recorded Tendermint execution with the base proof's
\* trusted_header_hash replaced, the base proof still valid for its outputs
WithTrustedHeaderHash(inputs, hash) ==
    LET base == [inputs.tendermint_public_values EXCEPT !.trusted_header_hash = hash]
    IN  [inputs EXCEPT !.tendermint_public_values = base,
                       !.tendermint_proof = [vk |-> TENDERMINT_VK, public_values |-> base]]

\* C32: an accepted non-bootstrap execution of the Tendermint recursion
\* circuit is accepted, with the same committed outputs, for every other
\* trusted_header_hash of its base proof.
C32_TrustedHeaderHashIgnored ==
    TendermintNonBootstrapCall =>
        \A hash \in HeaderHashes :
            LET result == tendermint_recursion_main(WithTrustedHeaderHash(call.inputs, hash))
            IN  result.ok /\ result.public_values = call.public_values

C32_Witness ==
    /\ TendermintNonBootstrapCall
    /\ call.inputs.tendermint_public_values.trusted_header_hash
          # FromSliceTendermintOutputs(call.inputs.recursive_public_values.v).v.root
    /\ call.inputs.tendermint_public_values.trusted_header_hash # TRUSTED_ROOT
    /\ call.prev.canonical


\* C33: a run whose RPCs answered goes on to build the proof inputs only
\* when the latest finalized slot is at least 32 slots above the trusted slot,
\* and returns the waiting error in every other case.
C33_ProceedsOnlyWhenEpochAhead ==
    (pre.result.tag # "None" /\ pre.rpc_ok) =>
        LET ahead == pre.latest_slot - pre.trusted_slot >= 32
        IN  /\ pre.result.tag = "Ok" => ahead
            /\ ~ ahead => pre.result = [tag |-> "Err", error |-> "waiting for finality"]


\* C34: in the stored row the wrapper proof column is NULL exactly when the
\* recursive proof column is; both are NULL at counter 0 and both hold a
\* proof from the first persisted round on.
C34_WrapperIffRecursive ==
    HasPersistedAnchor =>
        /\ db.v.most_recent_wrapper_proof.tag = db.v.most_recent_recursive_proof.tag
        /\ PersistedAnchor.most_recent_wrapper_proof.tag
             = PersistedAnchor.most_recent_recursive_proof.tag
        /\ PersistedAnchor.update_counter = 0
             <=> PersistedAnchor.most_recent_wrapper_proof.tag = "None"
        /\ persisted_rounds >= 1 <=> PersistedAnchor.most_recent_wrapper_proof.tag = "Some"

C34_Witness ==
    /\ HasPersistedAnchor
    /\ persisted_rounds = 1
    /\ db.v.most_recent_wrapper_proof.tag = "Some"
    /\ db.v.most_recent_recursive_proof.tag = "Some"
    /\ pc = "sleep"


\* what the adapter of MODE takes from the anchor it is given: the previous
\* proof, its public values, and the slot or height that selects the branch
FromAnchor(state) ==
    [recursive_proof |-> PreviousProofBytes(state),
     recursive_public_values |-> PreviousPublicValues(state),
     trusted |-> IF MODE = "HELIOS" THEN state.trusted_slot ELSE state.trusted_height]

\* the same three inputs as the round's recursion inputs carry them
AnchorInputs(prover) ==
    [recursive_proof |-> prover.inputs.recursive_proof,
     recursive_public_values |-> prover.inputs.recursive_public_values,
     trusted |-> IF prover.tag = "Helios" THEN prover.inputs.previous_head
                 ELSE prover.inputs.trusted_height]

\* C35: at the first step of every round the in-memory anchor is the stored
\* one, and each base step and each update of the loop is the step a loop
\* that reloads the anchor from the store at the start of the round would take.
C35_LoopEqualsReloadingLoop ==
    /\ [](pc = "base" => (db.tag = "Some" /\ service_state = load_state(db).v))
    /\ [][(pc = "base" /\ pc' = "recursive")
            => AnchorInputs(recursive_prover') = FromAnchor(load_state(db).v)]_vars
    /\ [][(pc = "wrapper" /\ service_state' # service_state)
            => service_state' = update_service_state(load_state(db).v, recursive_prover,
                                                     recursive_proof.v, WrapperProof)]_vars

C35_Witness ==
    /\ pc = "recursive"
    /\ persisted_rounds = 1
    /\ failed_step = "none"
    /\ AnchorInputs(recursive_prover) = FromAnchor(load_state(db).v)
    /\ recursive_prover.inputs.recursive_proof.tag = "Some"


\* the recursion circuit run on the round's inputs takes its bootstrap branch
TakesBootstrapBranch(prover) ==
    AnchorInputs(prover).trusted
        = (IF prover.tag = "Helios" THEN TRUSTED_HEAD ELSE TRUSTED_HEIGHT)

\* C36: in every round of a service whose two mode settings agree, the
\* counter is 0 exactly when the recursion circuit takes its bootstrap branch
\* on the inputs the adapter built, and a previous recursive proof is among
\* those inputs exactly when it takes the other branch.
C36_ProofHandedIffNonBootstrap ==
    (mode = MODE /\ pc \in {"recursive", "wrapper"}) =>
        /\ service_state.update_counter = 0 <=> TakesBootstrapBranch(recursive_prover)
        /\ recursive_prover.inputs.recursive_proof.tag = "Some"
             <=> ~ TakesBootstrapBranch(recursive_prover)


\* a step of the GET / handler
GetProofStep == last_call' # last_call

\* C37: a GET / leaves the stored row as it is, and whatever requests and
\* rounds have happened the row is the one initialize_state or the last
\* persisted round wrote.
C37_GetProofKeepsAnchor ==
    /\ [][GetProofStep => (db' = db /\ service_state' = service_state)]_vars
    /\ [](HasPersistedAnchor => (db = round_anchor.db /\ db = save_state(round_anchor.mem)))

C37_Witness ==
    /\ last_call.op = "get_proof"
    /\ last_call.response.status = 200
    /\ persisted_rounds = 1
    /\ pc = "wrapper"
    /\ db = round_anchor.db

\* the stored row holds a wrapper proof
StoredWrapperProof == db.tag = "Some" /\ db.v.most_recent_wrapper_proof.tag = "Some"

\* C38: the stored wrapper proof, once there, stays; a 200 is answered only
\* when it is there and a 404 only when it is not, so no 404 follows a 200.
C38_NoNotFoundAfterOk ==
    /\ [][StoredWrapperProof => StoredWrapperProof']_vars
    /\ []((last_call.op = "get_proof" /\ last_call.response.status = 200)
            => StoredWrapperProof)
    /\ [][(GetProofStep /\ last_call'.response.status = 404) => ~ StoredWrapperProof]_vars

C38_Witness ==
    /\ last_call.op = "get_proof"
    /\ last_call.response.status = 200
    /\ StoredWrapperProof
    /\ persisted_rounds = 2
    /\ failed_step = "base"


\* the update_counter of the stored row
PersistedCounter == IF db.tag = "Some" THEN db.v.update_counter ELSE -1

\* C39: under fair scheduling the loop does not stay in a step of a round
\* forever; each step is left for the next step, for the sleep of a failed
\* step or with an error, and the last step is left for the next round only
\* by a save that raises the stored counter by one.  So a round ends, and a
\* round whose steps all succeed ends with the counter raised.
C39_RoundEndsOrPersists ==
    /\ [][(pc = "base" /\ pc' # pc) => pc' \in {"recursive", "sleep", "terminated"}]_vars
    /\ [][(pc = "recursive" /\ pc' # pc) => pc' \in {"wrapper", "sleep", "terminated"}]_vars
    /\ [][(pc = "wrapper" /\ pc' # pc)
            => \/ pc' = "base" /\ PersistedCounter' = PersistedCounter + 1
               \/ pc' \in {"sleep", "terminated"}]_vars
    /\ []<>(pc # "base")
    /\ []<>(pc # "recursive")
    /\ []<>(pc # "wrapper")

C39_Witness ==
    /\ pc = "base"
    /\ PersistedCounter = 2
    /\ failed_step = "none"
    /\ persisted_rounds = 2


\* C40: a process started with an invalid CLIENT_BACKEND on an empty store
\* has written no row when it has ended.
C40_InvalidBackendWritesNothing ==
    (InvalidBackend /\ process # "running") => db = None

===========================================================================
